---- MODULE Spec2Model ----
(***************************************************************************)
(* A model of gfr (src/src/main.rs): the pattern repository, the search    *)
(* selector and aggregation of run_search, and the version-aware install   *)
(* pass of run_install.                                                    *)
(*                                                                         *)
(* Representation.                                                         *)
(*   Option<T>      a sequence of length <= 1: <<>> is None, <<v>> Some(v) *)
(*   String (regex) a TLA+ string; \o is concatenation                     *)
(*   String (version) a sequence of one-character strings, so that         *)
(*                  Version::parse can be modelled by what it does         *)
(*   Vec<T>         a sequence                                             *)
(*   a file         a record with a field kind: "absent", "garbage" (not   *)
(*                  JSON), "object" (JSON that is no Pattern), "pattern",  *)
(*                  "manifest"                                             *)
(***************************************************************************)
EXTENDS Integers, Sequences, FiniteSets, TLC

VARIABLES
    dirExists,  \* the configuration directory get_pattern_dir() exists
    files,      \* file name -> content, the files of that directory
    last,       \* what the last command did: its arguments and its outcome
    walk        \* the parallel directory walk of a search in tree mode

vars == <<dirExists, files, last, walk>>

----------------------------------------------------------------------------
(* Bounds *)

\* longest `patterns` list of a pattern record
MaxList == 2

\* longest remote index
MaxIndex == 2

\* most entries below the root of a walked tree
MaxEntries == 3

\* most workers of the walk
MaxWorkers == 2

----------------------------------------------------------------------------
(* Option and sequence helpers *)

None == <<>>

Some(v) == <<v>>

is_some(o) == Len(o) = 1

is_none(o) == Len(o) = 0

Range(s) == {s[i] : i \in 1..Len(s)}

SeqsUpTo(S, n) == UNION {[1..k -> S] : k \in 0..n}

\* slice::join on strings
RECURSIVE join(_, _)
join(ss, sep) ==
    IF Len(ss) = 0 THEN ""
    ELSE IF Len(ss) = 1 THEN ss[1]
    ELSE ss[1] \o sep \o join(Tail(ss), sep)

----------------------------------------------------------------------------
(* Pattern, and Pattern::get_raw_pattern *)

\* the regular expressions pattern records are built from
Regexes == {"", "a", "b", "abc"}

Authors == {"alice", "bob"}

Tags == {"web", "security", "infra"}

\* struct Pattern: the fields the selector and the aggregation read
Pattern(regex, regex_list, author, tags, file_types, ignore_case, multiline) ==
    [kind |-> "pattern", regex |-> regex, regex_list |-> regex_list,
     author |-> author, tags |-> tags, file_types |-> file_types,
     ignore_case |-> ignore_case, multiline |-> multiline]

Ok(v) == [ok |-> TRUE, val |-> v]

Err(e) == [ok |-> FALSE, err |-> e]

get_raw_pattern_single_wins(p) ==
    IF is_some(p.regex) THEN Ok(p.regex[1])
    ELSE IF is_some(p.regex_list) /\ Len(p.regex_list[1]) > 0
         THEN Ok("(?:" \o join(p.regex_list[1], "|") \o ")")
    ELSE Err("MissingRegex")

get_raw_pattern(p) ==
    IF is_some(p.regex) /\ is_none(p.regex_list) THEN Ok(p.regex[1])
    ELSE IF is_none(p.regex) /\ is_some(p.regex_list) /\ Len(p.regex_list[1]) > 0
         THEN Ok("(?:" \o join(p.regex_list[1], "|") \o ")")
    ELSE Err("MissingRegex")

\* the exactly-one-regex-source invariant of a pattern record
ExactlyOneSource(p) ==
    \/ is_some(p.regex) /\ is_none(p.regex_list)
    \/ is_none(p.regex) /\ is_some(p.regex_list) /\ Len(p.regex_list[1]) > 0

----------------------------------------------------------------------------
(* The configuration directory *)

\* the names pattern files are stored under
PatternNames == {"x", "y"}

\* format!("{name}.json")
json(name) == [stem |-> name, ext |-> "json"]

\* INSTALLED_MANIFEST_FILE
ManifestFileName == [stem |-> "installed", ext |-> "json"]

\* a file of the directory that is no JSON file
NotesFileName == [stem |-> "x", ext |-> "txt"]

FileNames == {json(n) : n \in PatternNames} \cup {ManifestFileName, NotesFileName}

Absent == [kind |-> "absent"]

Garbage == [kind |-> "garbage"]

\* well-formed JSON with a field struct Pattern does not have
ForeignObject == [kind |-> "object"]

\* a manifest body: a JSON object of name -> version string
ManifestBody(map) == [kind |-> "manifest", map |-> map]

\* Path::exists
exists(path) == path \in DOMAIN files /\ files[path].kind # "absent"

\* what is stored under a path
FileAt(path) == IF path \in DOMAIN files THEN files[path] ELSE Absent

\* serde_json into struct Pattern (deny_unknown_fields, every field optional
\* or defaulted): an object with no field at all is the all-default Pattern
DeserializePattern(body) ==
    IF body.kind = "pattern" THEN Ok(body)
    ELSE IF body.kind = "manifest" /\ DOMAIN body.map = {}
         THEN Ok(Pattern(None, None, None, None, None, FALSE, FALSE))
    ELSE Err("InvalidFormat")

load_pattern(name) ==
    IF ~exists(json(name)) THEN Err("NotFound")
    ELSE DeserializePattern(FileAt(json(name)))

\* fs::read_dir: the entries present, in an order the file system chooses
DirEntries == {f \in DOMAIN files : files[f].kind # "absent"}

Orders(S) == {o \in [1..Cardinality(S) -> S] : Range(o) = S}

\* the author predicate of the filter, lines 641-642
author_match(author, p) == is_none(author) \/ p.author = Some(author[1])

tags_match_any(tags, p) ==
    is_none(tags) \/
    (is_some(p.tags) /\ \E i \in 1..Len(tags[1]) : tags[1][i] \in Range(p.tags[1]))

\* the tags predicate of the filter, lines 643-647
tags_match(tags, p) ==
    is_none(tags) \/
    (is_some(p.tags) /\ \A i \in 1..Len(tags[1]) : tags[1][i] \in Range(p.tags[1]))

\* the directory entries the filter loop opens, lines 634-639
is_pattern_entry(f) == f.ext = "json" /\ f # ManifestFileName

\* the loop of lines 632-655 over the entries in read_dir order:
\* the records retained and the names load_pattern was called with
RECURSIVE filter_loop(_, _, _)
filter_loop(entries, tags, author) ==
    IF Len(entries) = 0 THEN [matched |-> <<>>, loaded |-> {}]
    ELSE LET f    == Head(entries)
             rest == filter_loop(Tail(entries), tags, author)
         IN  IF ~is_pattern_entry(f) THEN rest
             ELSE LET l == load_pattern(f.stem)
                      keep == l.ok /\ author_match(author, l.val) /\ tags_match(tags, l.val)
                  IN  [matched |-> IF keep THEN <<l.val>> \o rest.matched ELSE rest.matched,
                       loaded  |-> {f.stem} \cup rest.loaded]

find_patterns_by_filter(name, tags, author, entries) ==
    IF is_some(name)
    THEN LET l == load_pattern(name[1])
         IN  [res |-> IF l.ok THEN Ok(<<l.val>>) ELSE l,
              loaded |-> {name[1]}, scanned |-> FALSE]
    ELSE IF ~dirExists
    THEN [res |-> Ok(<<>>), loaded |-> {}, scanned |-> FALSE]
    ELSE LET r == filter_loop(entries, tags, author)
         IN  [res |-> IF Len(r.matched) = 0 THEN Err("NoMatches") ELSE Ok(r.matched),
              loaded |-> r.loaded, scanned |-> TRUE]

----------------------------------------------------------------------------
(* run_search: the selector checks, the aggregation, the final expression *)

\* line 248
no_filter(name, tags, author) == is_none(name) /\ is_none(tags) /\ is_none(author)

conflicting_filters_tags_only(name, tags, author) == is_some(name) /\ is_some(tags)

\* line 255
conflicting_filters(name, tags, author) ==
    is_some(name) /\ (is_some(tags) \/ is_some(author))

\* the loop of lines 275-282; `?` leaves at the first record without a raw pattern
RECURSIVE aggregate(_, _)
aggregate(patterns, acc) ==
    IF Len(patterns) = 0 THEN Ok(acc)
    ELSE LET p   == Head(patterns)
             raw == get_raw_pattern(p)
         IN  IF ~raw.ok THEN raw
             ELSE aggregate(Tail(patterns),
                    [all_regexes |-> Append(acc.all_regexes, raw.val),
                     all_file_types |-> acc.all_file_types \cup
                        (IF is_some(p.file_types) THEN Range(p.file_types[1]) ELSE {}),
                     combined_ignore_case |-> acc.combined_ignore_case \/ p.ignore_case,
                     combined_multiline |-> acc.combined_multiline \/ p.multiline])

EmptyAggregate ==
    [all_regexes |-> <<>>, all_file_types |-> {},
     combined_ignore_case |-> FALSE, combined_multiline |-> FALSE]

\* lines 284-290
flags_of(ic, ml) == (IF ic THEN "i" ELSE "") \o (IF ml THEN "s" ELSE "")

final_pattern_always_grouped(flags, patterns_combined) ==
    "(?" \o flags \o ")" \o patterns_combined

\* lines 292-296
final_pattern_of(flags, patterns_combined) ==
    IF flags = "" THEN patterns_combined
    ELSE "(?" \o flags \o ")" \o patterns_combined

\* what a search that stops before the aggregation leaves behind
Stopped(name, tags, author, outcome, found) ==
    [op |-> "search", name |-> name, tags |-> tags, author |-> author,
     outcome |-> outcome, loaded |-> found.loaded, scanned |-> found.scanned,
     selected |-> <<>>, patterns_combined |-> "", flags |-> "",
     final_pattern |-> "", built |-> FALSE]

NothingRead == [loaded |-> {}, scanned |-> FALSE]

\* run_search up to the matcher it builds (lines 247-300); every expression
\* of this model compiles, so the matcher is built whenever line 298 is reached
run_search(name, tags, author, entries) ==
    IF no_filter(name, tags, author)
    THEN Stopped(name, tags, author, "NoFilterSpecified", NothingRead)
    ELSE IF conflicting_filters(name, tags, author)
    THEN Stopped(name, tags, author, "ConflictingFilters", NothingRead)
    ELSE LET found == find_patterns_by_filter(name, tags, author, entries)
         IN  IF ~found.res.ok
             THEN Stopped(name, tags, author, found.res.err, found)
             ELSE LET agg == aggregate(found.res.val, EmptyAggregate)
                  IN  IF ~agg.ok
                      THEN [Stopped(name, tags, author, agg.err, found)
                              EXCEPT !.selected = found.res.val]
                      ELSE LET flags == flags_of(agg.val.combined_ignore_case,
                                                 agg.val.combined_multiline)
                               patterns_combined == join(agg.val.all_regexes, "|")
                           IN  [op |-> "search", name |-> name, tags |-> tags,
                                author |-> author, outcome |-> "Searched",
                                loaded |-> found.loaded, scanned |-> found.scanned,
                                selected |-> found.res.val,
                                patterns_combined |-> patterns_combined,
                                flags |-> flags,
                                final_pattern |-> final_pattern_of(flags, patterns_combined),
                                built |-> TRUE]

----------------------------------------------------------------------------
(* semver::Version: parse and order *)

Digits == {"0", "1", "2", "3", "4", "5", "6", "7", "8", "9"}

Letters == {"a", "b"}

DigitValue(c) ==
    CASE c = "0" -> 0 [] c = "1" -> 1 [] c = "2" -> 2 [] c = "3" -> 3 [] c = "4" -> 4
      [] c = "5" -> 5 [] c = "6" -> 6 [] c = "7" -> 7 [] c = "8" -> 8 [] c = "9" -> 9

\* the ASCII order of the characters an identifier is made of
CharCode(c) == IF c \in Digits THEN 48 + DigitValue(c) ELSE IF c = "a" THEN 97 ELSE 98

\* the index of the first c in s, 0 when there is none
RECURSIVE IndexOf(_, _, _)
IndexOf(s, c, i) ==
    IF i > Len(s) THEN 0 ELSE IF s[i] = c THEN i ELSE IndexOf(s, c, i + 1)

\* str::split
RECURSIVE Split(_, _)
Split(s, sep) ==
    LET i == IndexOf(s, sep, 1)
    IN  IF i = 0 THEN <<s>>
        ELSE <<SubSeq(s, 1, i - 1)>> \o Split(SubSeq(s, i + 1, Len(s)), sep)

RECURSIVE DecimalValue(_)
DecimalValue(ds) ==
    IF Len(ds) = 0 THEN 0
    ELSE 10 * DecimalValue(SubSeq(ds, 1, Len(ds) - 1)) + DigitValue(ds[Len(ds)])

AllDigits(id) == \A i \in 1..Len(id) : id[i] \in Digits

\* a numeric identifier: digits, no leading zero
IsNumeric(id) == Len(id) > 0 /\ AllDigits(id) /\ (Len(id) > 1 => id[1] # "0")

\* a pre-release identifier: alphanumeric, and when all digits no leading zero
IsPreIdent(id) ==
    /\ Len(id) > 0
    /\ \A i \in 1..Len(id) : id[i] \in Digits \cup Letters
    /\ AllDigits(id) => IsNumeric(id)

\* Version::parse: MAJOR.MINOR.PATCH with an optional -PRERELEASE
\* (build metadata is not modelled: no version of this model carries one)
ParseVersion(s) ==
    LET dash  == IndexOf(s, "-", 1)
        core  == IF dash = 0 THEN s ELSE SubSeq(s, 1, dash - 1)
        pre   == IF dash = 0 THEN <<>> ELSE Split(SubSeq(s, dash + 1, Len(s)), ".")
        parts == Split(core, ".")
    IN  IF /\ Len(parts) = 3
           /\ \A i \in 1..3 : IsNumeric(parts[i])
           /\ \A i \in 1..Len(pre) : IsPreIdent(pre[i])
        THEN Ok([major |-> DecimalValue(parts[1]), minor |-> DecimalValue(parts[2]),
                 patch |-> DecimalValue(parts[3]), pre |-> pre])
        ELSE Err("MalformedVersion")

\* the order of two identifiers of equal kind: -1, 0 or 1
RECURSIVE CompareChars(_, _)
CompareChars(a, b) ==
    IF Len(a) = 0 /\ Len(b) = 0 THEN 0
    ELSE IF Len(a) = 0 THEN -1
    ELSE IF Len(b) = 0 THEN 1
    ELSE IF CharCode(a[1]) < CharCode(b[1]) THEN -1
    ELSE IF CharCode(a[1]) > CharCode(b[1]) THEN 1
    ELSE CompareChars(Tail(a), Tail(b))

CompareInt(a, b) == IF a < b THEN -1 ELSE IF a > b THEN 1 ELSE 0

\* numeric identifiers order by value and before alphanumeric ones, which
\* order by their characters
CompareIdent(a, b) ==
    IF AllDigits(a) /\ AllDigits(b) THEN CompareInt(DecimalValue(a), DecimalValue(b))
    ELSE IF AllDigits(a) THEN -1
    ELSE IF AllDigits(b) THEN 1
    ELSE CompareChars(a, b)

\* Prerelease::cmp: no pre-release is above any pre-release
RECURSIVE ComparePre(_, _)
ComparePre(a, b) ==
    IF Len(a) = 0 /\ Len(b) = 0 THEN 0
    ELSE IF Len(a) = 0 THEN 1
    ELSE IF Len(b) = 0 THEN -1
    ELSE LET c == CompareIdent(a[1], b[1])
         IN  IF c # 0 THEN c
             ELSE IF Len(a) = 1 /\ Len(b) = 1 THEN 0
             ELSE IF Len(a) = 1 THEN -1
             ELSE IF Len(b) = 1 THEN 1
             ELSE ComparePre(Tail(a), Tail(b))

\* Version::cmp
CompareVersion(a, b) ==
    IF a.major # b.major THEN CompareInt(a.major, b.major)
    ELSE IF a.minor # b.minor THEN CompareInt(a.minor, b.minor)
    ELSE IF a.patch # b.patch THEN CompareInt(a.patch, b.patch)
    ELSE ComparePre(a.pre, b.pre)

----------------------------------------------------------------------------
(* run_install: the manifest and the pass over the remote index *)

\* load_manifest: an absent file is the empty mapping, a malformed one an error
load_manifest ==
    IF ~exists(ManifestFileName) THEN Ok(<<>>)
    ELSE IF FileAt(ManifestFileName).kind = "manifest"
         THEN Ok(FileAt(ManifestFileName).map)
    ELSE Err("InvalidFormat")

\* Result::unwrap_or_default on the manifest, line 396
unwrap_or_default(r) == IF r.ok THEN r.val ELSE <<>>

\* HashMap::get
get(manifest, name) == IF name \in DOMAIN manifest THEN Some(manifest[name]) ELSE None

\* HashMap::insert
insert(manifest, name, version) ==
    [n \in DOMAIN manifest \cup {name} |-> IF n = name THEN version ELSE manifest[n]]

\* Option::and_then(|v| Version::parse(v).ok()), line 405
parsed_local(local_version_str) ==
    IF is_some(local_version_str) /\ ParseVersion(local_version_str[1]).ok
    THEN Some(ParseVersion(local_version_str[1]).val)
    ELSE None

should_install_or_equal(local_version_str, remote_version) ==
    LET local_version == parsed_local(local_version_str)
    IN  is_none(local_version) \/ CompareVersion(local_version[1], remote_version) <= 0

\* lines 404-406
should_install(local_version_str, remote_version) ==
    LET local_version == parsed_local(local_version_str)
    IN  is_none(local_version) \/ CompareVersion(local_version[1], remote_version) = -1

classify_by_parsed_version(local_version_str) ==
    IF is_some(parsed_local(local_version_str)) THEN "updated" ELSE "added"

\* lines 436-440
classify(local_version_str) == IF is_some(local_version_str) THEN "updated" ELSE "added"

\* the request for a pattern body got no JSON back (lines 417-425)
Unreachable == [kind |-> "unreachable"]

\* one entry of the pass, as it was handled
Step(e, local_version_str, kind, body) ==
    [name |-> e.name, version |-> e.version, local |-> local_version_str,
     step |-> kind, body |-> body]

\* the pass stops at this entry with an error
Abort(st, e, local_version_str, kind, body) ==
    [st EXCEPT !.outcome = kind,
               !.trace = Append(@, Step(e, local_version_str, kind, body))]

\* lines 417-441 for one answer of the remote: fetch, validate, write the
\* pattern file, count, record the version
fetch_and_install(st, e, local_version_str, response) ==
    IF response.kind = "unreachable"
    THEN Abort(st, e, local_version_str, "FetchFailure", response)
    ELSE IF ~DeserializePattern(response).ok
    THEN Abort(st, e, local_version_str, "RemoteValidationFailure", response)
    ELSE [st EXCEPT
            !.files = [@ EXCEPT ![json(e.name)] = response],
            !.updated_count = IF classify(local_version_str) = "updated" THEN @ + 1 ELSE @,
            !.added_count = IF classify(local_version_str) = "added" THEN @ + 1 ELSE @,
            !.manifest = insert(@, e.name, e.version),
            !.trace = Append(@, Step(e, local_version_str, "installed", response))]

\* the loop of lines 400-443: every way the pass over the entries can go,
\* one for each answer the remote may give to each fetch
RECURSIVE install_loop(_, _, _)
install_loop(entries, st, responses) ==
    IF Len(entries) = 0 \/ st.outcome # "running" THEN {st}
    ELSE LET e == Head(entries)
             local_version_str == get(st.manifest, e.name)
             remote_version == ParseVersion(e.version)
         IN  IF ~remote_version.ok
             THEN {Abort(st, e, local_version_str, "MalformedRemoteVersion", Absent)}
             ELSE IF ~should_install(local_version_str, remote_version.val)
             THEN install_loop(Tail(entries),
                    [st EXCEPT !.trace = Append(@, Step(e, local_version_str, "skipped", Absent))],
                    responses)
             ELSE UNION {install_loop(Tail(entries),
                            fetch_and_install(st, e, local_version_str, r), responses)
                         : r \in responses}

finish_install_always_saves(end) ==
    [end EXCEPT !.files = [@ EXCEPT ![ManifestFileName] = ManifestBody(end.manifest)],
                !.manifest_writes = @ + 1,
                !.outcome = IF @ = "running" THEN "Ok" ELSE @]

\* line 445, reached only when no entry failed; save_manifest, lines 675-680
finish_install(end) ==
    IF end.outcome = "running"
    THEN [end EXCEPT !.files = [@ EXCEPT ![ManifestFileName] = ManifestBody(end.manifest)],
                     !.manifest_writes = @ + 1,
                     !.outcome = "Ok"]
    ELSE end

\* run_install once the index is fetched (lines 394-453): every way it can end
run_install(index, responses) ==
    LET manifest == unwrap_or_default(load_manifest)
        start == [manifest |-> manifest, files |-> files, added_count |-> 0,
                  updated_count |-> 0, trace |-> <<>>, outcome |-> "running",
                  manifest_writes |-> 0]
    IN  {finish_install(end) : end \in install_loop(index, start, responses)}

----------------------------------------------------------------------------
(* run_save *)

\* a name given on the command line, one character per element, as a String
RECURSIVE name_string(_)
name_string(chars) ==
    IF Len(chars) = 0 THEN "" ELSE Head(chars) \o name_string(Tail(chars))

\* line 524: args.name.contains(['.', '/', '\\'])
invalid_name(chars) == \E i \in 1..Len(chars) : chars[i] \in {".", "/", "\\"}

already_exists_never(path) == FALSE

\* line 535: pattern_file_path.exists()
already_exists(path) == exists(path)

\* lines 542-553: the record run_save builds from its arguments
new_pattern(args) ==
    Pattern(Some(args.pattern), None, args.author, args.tags, args.file_types,
            args.ignore_case, args.multiline)

\* run_save (lines 523-565): the directory and the files it leaves, and its outcome
run_save(args) ==
    LET pattern_file_path == json(name_string(args.name))
    IN  IF invalid_name(args.name)
        THEN [dirExists |-> dirExists, files |-> files, outcome |-> "InvalidName"]
        ELSE IF already_exists(pattern_file_path)
        THEN [dirExists |-> TRUE, files |-> files, outcome |-> "AlreadyExists"]
        ELSE [dirExists |-> TRUE,
              files |-> [f \in DOMAIN files \cup {pattern_file_path} |->
                            IF f = pattern_file_path THEN new_pattern(args) ELSE files[f]],
              outcome |-> "Ok"]

----------------------------------------------------------------------------
(* Specification SpecRaw: get_raw_pattern applied to pattern records *)

Option(S) == {None} \cup {Some(v) : v \in S}

NoFiles == [f \in FileNames |-> Absent]

Idle == [op |-> "none"]

\* no walk has been started
NoWalk == [phase |-> "none"]

InitRaw ==
    /\ dirExists = FALSE
    /\ files = NoFiles
    /\ last = Idle
    /\ walk = NoWalk

GetRawPattern ==
    /\ \E regex \in Option(Regexes), regex_list \in Option(SeqsUpTo(Regexes, MaxList)) :
         LET p == Pattern(regex, regex_list, None, None, None, FALSE, FALSE)
         IN  last' = [op |-> "get_raw_pattern", p |-> p, res |-> get_raw_pattern(p)]
    /\ UNCHANGED <<dirExists, files, walk>>

NextRaw == GetRawPattern

SpecRaw == InitRaw /\ [][NextRaw]_vars

----------------------------------------------------------------------------
(* Specification SpecSearch: run_search over a repository *)

\* the pattern files a repository may hold
StoredPatterns ==
    { Pattern(Some("abc"), None, Some("alice"), Some(<<"web", "security">>),
              Some(<<"rs">>), TRUE, FALSE),
      Pattern(None, Some(<<"a", "b">>), Some("bob"), Some(<<"web">>),
              None, FALSE, TRUE),
      Pattern(Some(""), None, Some("alice"), Some(<<"web">>),
              None, FALSE, FALSE),
      Pattern(Some("b"), None, Some("alice"), None,
              Some(<<"js">>), FALSE, FALSE),
      Pattern(Some("a"), None, None, Some(<<"infra", "web">>),
              None, FALSE, FALSE),
      Pattern(None, None, Some("alice"), Some(<<"web">>),
              None, FALSE, FALSE),
      Pattern(Some("a"), Some(<<"b">>), Some("bob"), Some(<<"security">>),
              None, TRUE, TRUE),
      Pattern(None, Some(<<>>), None, Some(<<"web", "infra">>),
              None, FALSE, FALSE) }

\* what a pattern file may contain
StoredFiles == StoredPatterns \cup {Absent, Garbage, ForeignObject}

\* what the second pattern file may contain
OtherStoredFiles ==
    { Absent, Garbage,
      Pattern(None, Some(<<"a", "b">>), Some("bob"), Some(<<"web">>),
              None, FALSE, TRUE),
      Pattern(Some(""), None, Some("alice"), Some(<<"web">>),
              None, FALSE, FALSE) }

\* the other files of the directory: none, a manifest, or a file that is no JSON
OtherFiles ==
    { [m |-> Absent, t |-> Absent],
      [m |-> ManifestBody(<<>>), t |-> Absent],
      [m |-> Absent, t |-> Garbage] }

\* the arguments of the search command
SearchNames == {"x", "z"}

SearchTags == {<<"web">>, <<"web", "infra">>, <<"security">>}

InitSearch ==
    /\ dirExists \in BOOLEAN
    /\ \E fx \in StoredFiles, fy \in OtherStoredFiles, o \in OtherFiles :
         files = IF dirExists
                 THEN [f \in FileNames |->
                         IF f = json("x") THEN fx
                         ELSE IF f = json("y") THEN fy
                         ELSE IF f = ManifestFileName THEN o.m
                         ELSE o.t]
                 ELSE NoFiles
    /\ last = Idle
    /\ walk = NoWalk

\* main runs one command and exits (lines 190-201)
Search ==
    /\ last = Idle
    /\ \E name \in Option(SearchNames), tags \in Option(SearchTags),
          author \in Option(Authors), entries \in Orders(DirEntries) :
         last' = run_search(name, tags, author, entries)
    /\ UNCHANGED <<dirExists, files, walk>>

\* run_dump: load the named pattern and print it
Dump ==
    /\ last = Idle
    /\ \E name \in SearchNames :
         last' = [op |-> "dump", name |-> name, res |-> load_pattern(name)]
    /\ UNCHANGED <<dirExists, files, walk>>

NextSearch == Search \/ Dump

SpecSearch == InitSearch /\ [][NextSearch]_vars

----------------------------------------------------------------------------
(* Properties of Pattern::get_raw_pattern, checked under SpecRaw *)

\* the elements of a non-empty list separated by "|"
RECURSIVE Alternation(_)
Alternation(l) ==
    IF Len(l) = 1 THEN l[1]
    ELSE Alternation(SubSeq(l, 1, Len(l) - 1)) \o "|" \o l[Len(l)]

\* C10: a record with only a single regex yields that regex verbatim; a
\* record with only a non-empty list yields "(?:" + the elements joined by
\* "|" + ")"; a record with neither source, with an empty list or with both
\* a single regex and a list yields the error MissingRegex and no string.
C10_RawPattern ==
    last.op = "get_raw_pattern" =>
        LET p == last.p
            r == last.res
        IN  /\ (is_some(p.regex) /\ is_none(p.regex_list)) => r = Ok(p.regex[1])
            /\ (is_none(p.regex) /\ is_some(p.regex_list) /\ Len(p.regex_list[1]) > 0)
                 => r = Ok("(?:" \o Alternation(p.regex_list[1]) \o ")")
            /\ (is_none(p.regex) /\ is_none(p.regex_list)) => r = Err("MissingRegex")
            /\ (is_none(p.regex) /\ is_some(p.regex_list) /\ Len(p.regex_list[1]) = 0)
                 => r = Err("MissingRegex")
            /\ (is_some(p.regex) /\ is_some(p.regex_list)) => r = Err("MissingRegex")

C10_Witness ==
    /\ last.op = "get_raw_pattern"
    /\ last.p.regex = None
    /\ last.p.regex_list = Some(<<"a", "b">>)
    /\ last.res = Ok("(?:a|b)")

----------------------------------------------------------------------------
(* Properties of the selector and the aggregation, checked under SpecSearch *)

\* the tags of a record as a set; a record without tags has none
TagSet(p) == IF is_some(p.tags) THEN Range(p.tags[1]) ELSE {}

\* the pattern names whose file deserializes as a Pattern
Parseable == {n \in PatternNames : FileAt(json(n)).kind = "pattern"}

\* the retention rule of the filter, in the words of section 4.2
Retains(tags, author, p) ==
    /\ is_none(author) \/ (is_some(p.author) /\ p.author[1] = author[1])
    /\ is_none(tags) \/ Range(tags[1]) \subseteq TagSet(p)

FilterSearch ==
    /\ last.op = "search"
    /\ is_none(last.name)
    /\ is_some(last.tags) \/ is_some(last.author)

NameSearch ==
    /\ last.op = "search"
    /\ is_some(last.name)
    /\ is_none(last.tags)
    /\ is_none(last.author)

\* C5 (as claimed): load(name) fails with NotFound when the file is absent and
\* with InvalidFormat when the stored record does not deserialize or violates
\* the exactly-one-regex-source invariant; it never returns a record that
\* violates the invariant.
C5_LoadEnforcesInvariant ==
    last.op = "dump" =>
        LET body == FileAt(json(last.name))
        IN  /\ body.kind = "absent" => last.res = Err("NotFound")
            /\ body.kind \in {"garbage", "object"} => last.res = Err("InvalidFormat")
            /\ (body.kind = "pattern" /\ ~ExactlyOneSource(body))
                 => last.res = Err("InvalidFormat")
            /\ last.res.ok => ExactlyOneSource(last.res.val)

\* C6 (as claimed): tag/author selection fails with NoMatches whenever the
\* retained set is empty, so no matcher is ever built from an empty list.
C6_EmptySelectionFails ==
    (FilterSearch /\ Len(last.selected) = 0)
        => (last.outcome = "NoMatches" /\ ~last.built)

\* C7: without a name, a parseable record is retained iff (no author filter or
\* it equals the record's author) and (no tags filter or the requested tags
\* are a subset of the record's tags); unparseable records are skipped without
\* an error and the manifest file is never loaded as a record.
C7_FilterRetention ==
    FilterSearch =>
        /\ \A n \in Parseable :
             (FileAt(json(n)) \in Range(last.selected))
                <=> Retains(last.tags, last.author, FileAt(json(n)))
        /\ Len(last.selected) =
             Cardinality({n \in Parseable : Retains(last.tags, last.author, FileAt(json(n)))})
        /\ last.outcome \in {"NoMatches", "Searched", "MissingRegex"}
        /\ ManifestFileName.stem \notin last.loaded
        /\ last.loaded \subseteq PatternNames

C7_Witness ==
    /\ FilterSearch
    /\ last.tags = Some(<<"web", "infra">>)
    /\ exists(ManifestFileName)
    /\ FileAt(json("x")).kind = "pattern"
    /\ FileAt(json("x")).tags = Some(<<"infra", "web">>)
    /\ FileAt(json("y")).kind = "pattern"
    /\ FileAt(json("y")).tags = Some(<<"web">>)
    /\ last.selected = <<FileAt(json("x"))>>

\* C8: a name together with tags or author fails with ConflictingFilters and
\* no filter at all fails with NoFilterSpecified, both before anything of the
\* repository is read; a name alone resolves to exactly the named record, or
\* to the error of loading it.
C8_SelectorChecks ==
    last.op = "search" =>
        /\ (is_some(last.name) /\ (is_some(last.tags) \/ is_some(last.author)))
             => (last.outcome = "ConflictingFilters" /\ last.loaded = {} /\ ~last.scanned)
        /\ (is_none(last.name) /\ is_none(last.tags) /\ is_none(last.author))
             => (last.outcome = "NoFilterSpecified" /\ last.loaded = {} /\ ~last.scanned)
        /\ NameSearch =>
             LET body == FileAt(json(last.name[1]))
             IN  /\ last.loaded = {last.name[1]}
                 /\ ~last.scanned
                 /\ body.kind = "absent" => last.outcome = "NotFound"
                 /\ body.kind \in {"garbage", "object"} => last.outcome = "InvalidFormat"
                 /\ body.kind = "pattern" =>
                      (last.selected = <<body>> /\ last.outcome \in {"Searched", "MissingRegex"})

C8_Witness ==
    /\ last.op = "search"
    /\ last.name = Some("x")
    /\ is_some(last.author)
    /\ is_none(last.tags)
    /\ exists(json("x"))
    /\ last.outcome = "ConflictingFilters"

\* a search that reached the aggregation with a non-empty list of valid records
Combined ==
    /\ last.op = "search"
    /\ last.built
    /\ Len(last.selected) > 0
    /\ \A i \in 1..Len(last.selected) : ExactlyOneSource(last.selected[i])

\* the inline flag group section 4.3 asks for
FlagGroup(records) ==
    LET ic == \E i \in 1..Len(records) : records[i].ignore_case
        ml == \E i \in 1..Len(records) : records[i].multiline
    IN  IF ic /\ ml THEN "(?is)"
        ELSE IF ic THEN "(?i)"
        ELSE IF ml THEN "(?s)"
        ELSE ""

\* C9 (as claimed): for every non-empty list of valid records the combined
\* regex is never empty, and the final expression is the combined regex behind
\* exactly one flag group "(?i)", "(?s)" or "(?is)" when some record asks for
\* a flag, and behind nothing when none does.
C9_CombineAsClaimed ==
    Combined =>
        /\ last.patterns_combined # ""
        /\ last.final_pattern = FlagGroup(last.selected) \o last.patterns_combined

\* C9 (amended): the combined regex is empty only when the list is a single
\* record whose single regex is the empty string; the flag group is as claimed.
C9_Combine ==
    Combined =>
        /\ last.patterns_combined = ""
             <=> (Len(last.selected) = 1 /\ last.selected[1].regex = Some(""))
        /\ last.final_pattern = FlagGroup(last.selected) \o last.patterns_combined
        /\ last.final_pattern # "(?)" \o last.patterns_combined

C9_Witness ==
    /\ Combined
    /\ Len(last.selected) = 2
    /\ last.selected[1].ignore_case /\ ~last.selected[1].multiline
    /\ last.selected[2].multiline /\ ~last.selected[2].ignore_case
    /\ last.final_pattern = "(?is)abc|(?:a|b)"

----------------------------------------------------------------------------
(* Specification SpecInstall: one run of the install command *)

Version_1_9_0 == <<"1", ".", "9", ".", "0">>

Version_1_10_0 == <<"1", ".", "1", "0", ".", "0">>

Version_2_0_0_a == <<"2", ".", "0", ".", "0", "-", "a">>

Version_2_0_0 == <<"2", ".", "0", ".", "0">>

\* no semantic version: a part is missing
Version_1_0 == <<"1", ".", "0">>

VersionStrings == {Version_1_9_0, Version_1_10_0, Version_2_0_0_a, Version_2_0_0, Version_1_0}

\* the entries of a remote index; each has its own url
IndexPattern == [name : PatternNames, version : VersionStrings]

\* what the url of an entry may answer: no JSON, JSON that is no Pattern, a
\* pattern with a single regex, with no regex source, with both sources
Responses ==
    { Unreachable, ForeignObject,
      Pattern(Some("abc"), None, Some("alice"), Some(<<"web">>), None, FALSE, FALSE),
      Pattern(None, None, None, None, None, FALSE, FALSE),
      Pattern(Some("a"), Some(<<"b">>), None, None, None, FALSE, FALSE) }

\* the manifests the directory may hold when the command starts
InstalledManifests ==
    {Absent, Garbage} \cup
    {ManifestBody(m) : m \in UNION {[D -> VersionStrings] : D \in {{}, {"x"}}}} \cup
    {ManifestBody(m) : m \in [{"x", "y"} -> {Version_1_9_0, Version_2_0_0}]}

InitInstall ==
    /\ dirExists \in BOOLEAN
    /\ \E m \in InstalledManifests,
          fx \in {Absent, Pattern(Some("b"), None, None, None, None, FALSE, FALSE)} :
         files = IF dirExists
                 THEN [f \in FileNames |->
                         IF f = json("x") THEN fx
                         ELSE IF f = ManifestFileName THEN m
                         ELSE Absent]
                 ELSE NoFiles
    /\ last = Idle
    /\ walk = NoWalk

\* lines 379-386: the index could not be fetched or parsed
InstallIndexUnavailable ==
    /\ last = Idle
    /\ last' = [op |-> "install", index |-> <<>>, outcome |-> "IndexFetchFailure",
                before |-> files, dir_before |-> dirExists, added_count |-> 0,
                updated_count |-> 0, trace |-> <<>>, manifest_writes |-> 0,
                manifest_loaded |-> <<>>]
    /\ UNCHANGED <<dirExists, files, walk>>

\* run_install with the index fetched
Install ==
    /\ last = Idle
    /\ \E index \in SeqsUpTo(IndexPattern, MaxIndex) :
         \E end \in run_install(index, Responses) :
            /\ dirExists' = TRUE
            /\ files' = end.files
            /\ last' = [op |-> "install", index |-> index, outcome |-> end.outcome,
                        before |-> files, dir_before |-> dirExists,
                        added_count |-> end.added_count,
                        updated_count |-> end.updated_count, trace |-> end.trace,
                        manifest_writes |-> end.manifest_writes,
                        manifest_loaded |-> unwrap_or_default(load_manifest)]
    /\ UNCHANGED walk

NextInstall == InstallIndexUnavailable \/ Install

SpecInstall == InitInstall /\ [][NextInstall]_vars

----------------------------------------------------------------------------
(* Properties of the install pass, checked under SpecInstall *)

Failures == {"MalformedRemoteVersion", "FetchFailure", "RemoteValidationFailure"}

Installed(i) == last.trace[i].step = "installed"

\* the entry was fetched: every step but a skip and a malformed remote version
Fetched(i) == last.trace[i].step \in {"installed", "FetchFailure", "RemoteValidationFailure"}

\* the in-memory manifest after the given steps: only installs change it
RECURSIVE Replay(_, _)
Replay(m, steps) ==
    IF Len(steps) = 0 THEN m
    ELSE LET s == Head(steps)
         IN  Replay(IF s.step = "installed"
                    THEN [n \in DOMAIN m \cup {s.name} |->
                            IF n = s.name THEN s.version ELSE m[n]]
                    ELSE m,
                    Tail(steps))

\* the in-memory manifest when entry i is processed
ManifestAt(i) == Replay(last.manifest_loaded, SubSeq(last.trace, 1, i - 1))

\* C1: a failure on an index entry (remote version unparseable, body not
\* fetched, body not valid) ends the pass at that entry: nothing after it is
\* processed and the manifest file is not written. The manifest is written
\* once, after all entries went through; after an aborted pass the manifest
\* file is what it was before.
C1_FailureAbortsPass ==
    last.op = "install" =>
        /\ Len(last.trace) <= Len(last.index)
        /\ \A i \in 1..Len(last.trace) :
             /\ last.trace[i].name = last.index[i].name
             /\ last.trace[i].version = last.index[i].version
             /\ ~ParseVersion(last.index[i].version).ok
                  => last.trace[i].step = "MalformedRemoteVersion"
             /\ (Fetched(i) /\ last.trace[i].body.kind = "unreachable")
                  => last.trace[i].step = "FetchFailure"
             /\ (Fetched(i) /\ last.trace[i].body.kind \in {"object", "garbage"})
                  => last.trace[i].step = "RemoteValidationFailure"
             /\ last.trace[i].step \in Failures
                  => (i = Len(last.trace) /\ last.outcome = last.trace[i].step)
        /\ \A n \in PatternNames :
             files[json(n)] # last.before[json(n)]
                => \E i \in 1..Len(last.trace) : Installed(i) /\ last.trace[i].name = n
        /\ last.outcome = "Ok" =>
             /\ Len(last.trace) = Len(last.index)
             /\ \A i \in 1..Len(last.trace) : last.trace[i].step \notin Failures
             /\ last.manifest_writes = 1
        /\ last.outcome # "Ok" =>
             /\ last.manifest_writes = 0
             /\ files[ManifestFileName] = last.before[ManifestFileName]
             /\ last.outcome \in Failures \cup {"IndexFetchFailure"}

C1_Witness ==
    /\ last.op = "install"
    /\ Len(last.index) = 2
    /\ Len(last.trace) = 1
    /\ last.trace[1].step = "FetchFailure"
    /\ ParseVersion(last.index[2].version).ok
    /\ last.index[2].name # last.index[1].name
    /\ last.before[ManifestFileName].kind = "manifest"
    /\ files[ManifestFileName] = last.before[ManifestFileName]
    /\ files[json(last.index[2].name)] = Absent

\* C2: an entry whose remote version parses is fetched and installed iff its
\* name is absent from the in-memory manifest, or the recorded version is no
\* semantic version, or the recorded version is strictly below the remote
\* one. An equal or older remote version causes no fetch, no write of the
\* pattern file and no change of the manifest entry.
C2_ShouldInstall ==
    last.op = "install" =>
        /\ \A i \in 1..Len(last.trace) :
             LET e      == last.trace[i]
                 m      == ManifestAt(i)
                 remote == ParseVersion(e.version)
             IN  /\ e.local = (IF e.name \in DOMAIN m THEN Some(m[e.name]) ELSE None)
                 /\ remote.ok =>
                      (Fetched(i) <=>
                         \/ e.name \notin DOMAIN m
                         \/ ~ParseVersion(m[e.name]).ok
                         \/ CompareVersion(ParseVersion(m[e.name]).val, remote.val) = -1)
                 /\ ~Fetched(i) => Replay(m, <<e>>) = m
        /\ last.outcome = "Ok" =>
             files[ManifestFileName] = ManifestBody(Replay(last.manifest_loaded, last.trace))
        /\ \A n \in PatternNames :
             (~\E i \in 1..Len(last.trace) : Installed(i) /\ last.trace[i].name = n)
                => files[json(n)] = last.before[json(n)]

C2_Witness ==
    /\ last.op = "install"
    /\ last.outcome = "Ok"
    /\ Len(last.trace) = 2
    /\ last.trace[1].name = "x"
    /\ last.trace[1].local = Some(Version_1_9_0)
    /\ last.trace[1].version = Version_1_10_0
    /\ last.trace[1].step = "installed"
    /\ last.trace[2].name = "x"
    /\ last.trace[2].local = Some(Version_1_10_0)
    /\ last.trace[2].version = Version_1_10_0
    /\ last.trace[2].step = "skipped"

\* C3: every installed entry sets the manifest entry of its name to the remote
\* version and is counted once, as added when the name was absent from the
\* manifest when the entry was processed and as updated otherwise (also when
\* the recorded version did not parse). From an absent manifest and the index
\* {x, 2.0.0} a successful pass leaves x -> 2.0.0 with one added.
C3_AddedAndUpdated ==
    last.op = "install" =>
        LET installed == {i \in 1..Len(last.trace) : Installed(i)}
            added     == {i \in installed : last.trace[i].name \notin DOMAIN ManifestAt(i)}
            updated   == {i \in installed : last.trace[i].name \in DOMAIN ManifestAt(i)}
        IN  /\ last.added_count = Cardinality(added)
            /\ last.updated_count = Cardinality(updated)
            /\ last.added_count + last.updated_count = Cardinality(installed)
            /\ \A i \in installed :
                 /\ last.trace[i].name \in DOMAIN ManifestAt(i + 1)
                 /\ ManifestAt(i + 1)[last.trace[i].name] = last.index[i].version
            /\ last.outcome = "Ok" =>
                 /\ files[ManifestFileName].kind = "manifest"
                 /\ \A i \in installed :
                      (\A j \in installed : j > i => last.trace[j].name # last.trace[i].name)
                         => /\ last.trace[i].name \in DOMAIN files[ManifestFileName].map
                            /\ files[ManifestFileName].map[last.trace[i].name]
                                 = last.index[i].version
            /\ (/\ last.outcome = "Ok"
                /\ last.before[ManifestFileName] = Absent
                /\ last.index = <<[name |-> "x", version |-> Version_2_0_0]>>)
                 => /\ files[ManifestFileName] = ManifestBody([n \in {"x"} |-> Version_2_0_0])
                    /\ last.added_count = 1
                    /\ last.updated_count = 0

C3_Witness ==
    /\ last.op = "install"
    /\ last.outcome = "Ok"
    /\ last.before[ManifestFileName] = Absent
    /\ last.index = <<[name |-> "x", version |-> Version_2_0_0]>>
    /\ files[ManifestFileName] = ManifestBody([n \in {"x"} |-> Version_2_0_0])
    /\ last.added_count = 1

\* C4 (as claimed): a fetched body is validated against the exactly-one-regex-
\* source invariant before anything is written: a body with neither source,
\* both, or an empty list is never written to the repository nor recorded in
\* the manifest, and aborts the pass.
C4_InstallValidatesRegexSource ==
    last.op = "install" =>
        \A i \in 1..Len(last.trace) :
            (/\ Fetched(i)
             /\ last.trace[i].body.kind = "pattern"
             /\ ~ExactlyOneSource(last.trace[i].body))
               => /\ last.trace[i].step = "RemoteValidationFailure"
                  /\ last.outcome = "RemoteValidationFailure"
                  /\ files[json(last.trace[i].name)] # last.trace[i].body
                       \/ files[json(last.trace[i].name)] = last.before[json(last.trace[i].name)]

\* C13 (as claimed): when a pass ends, by success or by abort, the manifest
\* file records, for every pattern file the pass wrote, the version written.
C13_NoPartialInstallation ==
    last.op = "install" =>
        \A i \in 1..Len(last.trace) :
            (/\ Installed(i)
             /\ \A j \in (i + 1)..Len(last.trace) :
                    Installed(j) => last.trace[j].name # last.trace[i].name)
               => /\ files[ManifestFileName].kind = "manifest"
                  /\ last.trace[i].name \in DOMAIN files[ManifestFileName].map
                  /\ files[ManifestFileName].map[last.trace[i].name] = last.trace[i].version

\* the pass got its index, so it went on to load the manifest
IndexFetched == last.op = "install" /\ last.outcome # "IndexFetchFailure"

\* the manifest file was there when the pass started, and was no manifest
ManifestWasMalformed == last.before[ManifestFileName].kind \notin {"absent", "manifest"}

\* C14 (as claimed): a manifest file that exists but is malformed makes the
\* pass fail with InvalidFormat: nothing is fetched, no pattern is written or
\* counted as added, and the manifest is not replaced.
C14_MalformedManifestFails ==
    (IndexFetched /\ ManifestWasMalformed) =>
        /\ last.outcome = "InvalidFormat"
        /\ last.trace = <<>>
        /\ last.added_count = 0
        /\ files = last.before

----------------------------------------------------------------------------
(* Specification SpecRepo: save and install commands, one after another *)

\* the names given to save: two pattern names, the stem of the manifest file,
\* and a name save rejects
SaveNames ==
    { <<"x">>, <<"y">>, <<"a", ".", "b">>,
      <<"i", "n", "s", "t", "a", "l", "l", "e", "d">> }

SaveArgs ==
    [name : SaveNames, pattern : {"a", "b"}, author : {None}, tags : {None},
     file_types : {None}, ignore_case : {FALSE}, multiline : {FALSE}]

\* the remote index and the answers of the remote in this specification
RepoIndexPattern == [name : PatternNames, version : {Version_1_9_0, Version_1_10_0}]

RepoResponses ==
    { Unreachable,
      Pattern(Some("abc"), None, Some("alice"), Some(<<"web">>), None, FALSE, FALSE) }

\* the installs of a pass: name, version recorded before, version installed
Installs(trace) ==
    {[name |-> trace[i].name, local |-> trace[i].local, version |-> trace[i].version]
        : i \in {j \in 1..Len(trace) : trace[j].step = "installed"}}

InitRepo ==
    /\ dirExists = FALSE
    /\ files = NoFiles
    /\ last = Idle
    /\ walk = NoWalk

RepoSave ==
    \E args \in SaveArgs :
        LET end == run_save(args)
        IN  /\ dirExists' = end.dirExists
            /\ files' = end.files
            /\ last' = [op |-> "save", name |-> name_string(args.name),
                        outcome |-> end.outcome, installs |-> {}]
            /\ UNCHANGED walk

RepoInstall ==
    \E index \in SeqsUpTo(RepoIndexPattern, MaxIndex) :
        \E end \in run_install(index, RepoResponses) :
            /\ dirExists' = TRUE
            /\ files' = end.files
            /\ last' = [op |-> "install", name |-> "", outcome |-> end.outcome,
                        installs |-> Installs(end.trace)]
            /\ UNCHANGED walk

NextRepo == RepoSave \/ RepoInstall

SpecRepo == InitRepo /\ [][NextRepo]_vars

\* the recorded version is absent, no semantic version, or below the remote one
ShouldInstall(local, version) ==
    \/ local = None
    \/ ~ParseVersion(local[1]).ok
    \/ CompareVersion(ParseVersion(local[1]).val, ParseVersion(version).val) = -1

----------------------------------------------------------------------------
(* Specification SpecWalk: a search in tree mode, lines 303-369 *)

\* what the walk hands to the callback: an entry that could not be read, a
\* regular file that scans and matches, a regular file whose scan fails, a
\* directory
EntryKinds == {"error", "file", "unreadable", "dir"}

\* the root of the walk, a directory; the entries below it are 1..Len(tree)
Root == 0

kind_of(tree, e) == IF e = Root THEN "dir" ELSE tree[e]

\* a line on the diagnostic stream
Diagnostic(e, what) == [entry |-> e, what |-> what]

callback_quits_on_error(kind, e) ==
    IF kind = "error"
    THEN [out |-> {}, err |-> {Diagnostic(e, "walk")}, state |-> "Quit"]
    ELSE IF kind = "file"
    THEN [out |-> {e}, err |-> {}, state |-> "Continue"]
    ELSE IF kind = "unreadable"
    THEN [out |-> {}, err |-> {Diagnostic(e, "scan")}, state |-> "Quit"]
    ELSE [out |-> {}, err |-> {}, state |-> "Continue"]

\* the closure of lines 334-357 on one entry: what it prints on the output
\* and on the diagnostic stream, and the WalkState it returns
callback(kind, e) ==
    IF kind = "error"
    THEN [out |-> {}, err |-> {Diagnostic(e, "walk")}, state |-> "Continue"]
    ELSE IF kind = "file"
    THEN [out |-> {e}, err |-> {}, state |-> "Continue"]
    ELSE IF kind = "unreadable"
    THEN [out |-> {}, err |-> {Diagnostic(e, "scan")}, state |-> "Continue"]
    ELSE [out |-> {}, err |-> {}, state |-> "Continue"]

\* a worker that holds no entry
NoEntry == -1

\* build_parallel().run with n workers: the root is the first entry to visit
StartWalk(tree, n) ==
    [phase |-> "running", tree |-> tree, pending |-> {Root},
     worker |-> [w \in 1..n |-> NoEntry], visited |-> {}, stdout |-> {},
     stderr |-> {}, returned |-> {}, quit |-> FALSE, outcome |-> "none"]

InitWalk ==
    /\ dirExists \in BOOLEAN
    /\ files = IF dirExists
               THEN [f \in FileNames |->
                       IF f = json("x")
                       THEN Pattern(Some("abc"), None, None, None, None, FALSE, FALSE)
                       ELSE Absent]
               ELSE NoFiles
    /\ last = Idle
    /\ walk = NoWalk

\* run_search with its standard input a terminal: an error before the matcher
\* is built ends the command, otherwise the walk starts
RunSearchTree ==
    /\ last = Idle
    /\ \E name \in Option({"x"}), entries \in Orders(DirEntries) :
         LET r == run_search(name, None, None, entries)
         IN  /\ last' = r
             /\ \/ ~r.built /\ walk' = NoWalk
                \/ /\ r.built
                   /\ \E tree \in SeqsUpTo(EntryKinds, MaxEntries), n \in 1..MaxWorkers :
                        walk' = StartWalk(tree, n)
    /\ UNCHANGED <<dirExists, files>>

\* a worker takes an entry off the walk's queue
Take(w) ==
    /\ walk.phase = "running"
    /\ w \in DOMAIN walk.worker
    /\ ~walk.quit
    /\ walk.worker[w] = NoEntry
    /\ \E e \in walk.pending :
         walk' = [walk EXCEPT !.pending = @ \ {e}, !.worker[w] = e]
    /\ UNCHANGED <<dirExists, files, last>>

\* the worker runs the callback on its entry; Quit stops the walk, Continue
\* on a directory queues what is below it
Visit(w) ==
    /\ walk.phase = "running"
    /\ w \in DOMAIN walk.worker
    /\ walk.worker[w] # NoEntry
    /\ LET e == walk.worker[w]
           r == callback(kind_of(walk.tree, e), e)
       IN  walk' = [walk EXCEPT
                      !.worker[w] = NoEntry,
                      !.visited = @ \cup {e},
                      !.stdout = @ \cup r.out,
                      !.stderr = @ \cup r.err,
                      !.returned = @ \cup {r.state},
                      !.quit = @ \/ r.state = "Quit",
                      !.pending = IF e = Root /\ r.state = "Continue"
                                  THEN @ \cup (1..Len(walk.tree))
                                  ELSE @]
    /\ UNCHANGED <<dirExists, files, last>>

\* run() returns when no worker holds an entry and nothing is left to take;
\* run_search then returns Ok(()), line 369
WalkFinish ==
    /\ walk.phase = "running"
    /\ \A w \in DOMAIN walk.worker : walk.worker[w] = NoEntry
    /\ walk.pending = {} \/ walk.quit
    /\ walk' = [walk EXCEPT !.phase = "done", !.outcome = "Ok"]
    /\ UNCHANGED <<dirExists, files, last>>

NextWalk ==
    \/ RunSearchTree
    \/ \E w \in 1..MaxWorkers : Take(w)
    \/ \E w \in 1..MaxWorkers : Visit(w)
    \/ WalkFinish

SpecWalk == InitWalk /\ [][NextWalk]_vars

\* the entries of the walked tree of a kind
EntriesOf(kinds) == {e \in 1..Len(walk.tree) : walk.tree[e] \in kinds}

\* C11: with any number of workers and any interleaving, every callback
\* returns Continue and no failure stops the walk: every readable regular
\* file visited has its matches reported, every failure is reported on the
\* diagnostic stream and nowhere else, and once the walk completes every
\* entry was visited and the command's outcome is success, whatever failed.
C11_WalkNeverAborts ==
    walk.phase # "none" =>
        /\ walk.returned \subseteq {"Continue"}
        /\ ~walk.quit
        /\ walk.stdout = walk.visited \cap EntriesOf({"file"})
        /\ walk.stderr =
             {Diagnostic(e, "walk") : e \in walk.visited \cap EntriesOf({"error"})} \cup
             {Diagnostic(e, "scan") : e \in walk.visited \cap EntriesOf({"unreadable"})}
        /\ walk.phase = "done" =>
             /\ walk.visited = {Root} \cup (1..Len(walk.tree))
             /\ walk.outcome = "Ok"
        /\ walk.phase = "running" => walk.outcome = "none"

\* a directory with one unreadable file and two matching files, walked by two
\* workers to the end
C11_Witness ==
    /\ walk.phase = "done"
    /\ walk.tree = <<"unreadable", "file", "file">>
    /\ DOMAIN walk.worker = 1..2
    /\ walk.stdout = {2, 3}
    /\ walk.stderr = {Diagnostic(1, "scan")}
    /\ walk.outcome = "Ok"

====
